---- MODULE Spec2Model ----
(***************************************************************************)
(* OMO Platform: the record state machine (scrape saves with change        *)
(* detection, selection of pending records, the transform run) and the     *)
(* short-video pipeline of one record.                                     *)
(***************************************************************************)
EXTENDS Integers, Sequences, FiniteSets, TLC

(* ---------------------------------------------------------------------- *)
(* Bounds                                                                 *)
(* ---------------------------------------------------------------------- *)
NDocs == 2
MaxHash == 2
MaxLimit == 2
MaxStamp == 1

DocIds == 1..NDocs
Hashes == 1..MaxHash

(* ---------------------------------------------------------------------- *)
(* Documents                                                              *)
(* ---------------------------------------------------------------------- *)

\* Python None / a Firestore null, True and False of the scriptStatus field.
None == "None"
True == "True"
False == "False"

\* The transformers in the order main() registers them.
TransformOrder == <<"text_simple", "text_easy", "text_script", "image_single", "video_short">>

TransformTypes == {TransformOrder[i] : i \in 1..Len(TransformOrder)}

\* A map with no key: a field that is absent from the document.
EmptyMap == [t \in {} |-> 0]

\* One scene beat of a script: whether its narration text and its image
\* prompt are non-empty.
Beat(text, prompt) == [text |-> text, prompt |-> prompt]

\* What a transformer returns: ok = FALSE is Python's None.
NoResult == [ok |-> FALSE, beats |-> <<>>, videos |-> {}]

Result(beats, videos) == [ok |-> TRUE, beats |-> beats, videos |-> videos]

\* A document snapshot whose exists is False.
NoDoc ==
    [exists |-> FALSE, quick_hash |-> 0, scraped_at |-> 0, scrapeStatus |-> None,
     scriptStatus |-> None, transformStatus |-> EmptyMap, transformedContent |-> EmptyMap]

VARIABLES
    store,         \* the collection: document id -> document
    enabled,       \* the transform types the configuration enables
    aspect_ratios, \* VideoShortTransformer.aspect_ratios
    batch_limit,   \* config.batch_limit (0: no limit)
    run,           \* the transform run: its position and the snapshots it still has to process
    last,          \* the last call made: its arguments, what it returned and what it issued
    generate_images, \* VideoShortTransformer.generate_images
    bgm_enabled,   \* VideoShortTransformer.bgm_config["enabled"]
    job            \* the record being processed scene by scene, and its video pipeline

vars == <<store, enabled, aspect_ratios, batch_limit, run, last, generate_images, bgm_enabled, job>>

\* The configuration: read at start-up, never written.
config == <<enabled, aspect_ratios, batch_limit, generate_images, bgm_enabled>>

\* The record of a call. op is the call and id its document. Of a save:
\* hash is the fingerprint given, old_exists and old_hash the snapshot read,
\* was the scriptStatus read, ret the value returned, wrote whether set() was
\* called, again whether the call repeats the call before it. Of a processed
\* record: returned is the transformers that returned a result, raised an
\* exception in the loop, issued the update_document calls made, applied
\* whether the update was written. same: the call left the document as it was.
NoCall ==
    [op |-> "none", id |-> 0, hash |-> 0, old_exists |-> FALSE, old_hash |-> 0,
     was |-> None, ret |-> "none", wrote |-> FALSE, again |-> FALSE,
     returned |-> {}, raised |-> FALSE, issued |-> 0, applied |-> FALSE, same |-> TRUE]

(* ---------------------------------------------------------------------- *)
(* FirestoreClient.save_with_hash_check                                   *)
(* ---------------------------------------------------------------------- *)

\* A change detector that reports every save as a change.
HashAlwaysChanged(old_hash, new_hash) == TRUE

\* old_hash != new_hash
HashChanged(old_hash, new_hash) == old_hash # new_hash

\* The payload written for a document that does not exist: set() without merge.
NewPayload(new_hash) ==
    [NoDoc EXCEPT !.exists = TRUE, !.quick_hash = new_hash,
                  !.scrapeStatus = "new", !.scriptStatus = None]

\* An update that leaves out the scriptStatus reset.
UpdatedPayloadKeepsScript(old, new_hash) ==
    [old EXCEPT !.quick_hash = new_hash, !.scrapeStatus = "updated"]

\* The payload merged into an existing document: set(merge=True) keeps the
\* fields the payload does not name.
UpdatedPayload(old, new_hash) ==
    [old EXCEPT !.quick_hash = new_hash, !.scrapeStatus = "updated", !.scriptStatus = None]

\* The return value of save_with_hash_check.
SaveStatus(old, new_hash) ==
    IF old.exists
    THEN IF HashChanged(old.quick_hash, new_hash) THEN "updated" ELSE "nochange"
    ELSE "new"

\* A save that marks a document it finds unchanged.
SaveDocMarksUnchanged(old, new_hash) ==
    IF old.exists
    THEN IF HashChanged(old.quick_hash, new_hash) THEN UpdatedPayload(old, new_hash)
         ELSE [old EXCEPT !.scrapeStatus = "unchanged"]
    ELSE NewPayload(new_hash)

\* The document after save_with_hash_check.
SaveDoc(old, new_hash) ==
    IF old.exists
    THEN IF HashChanged(old.quick_hash, new_hash) THEN UpdatedPayload(old, new_hash) ELSE old
    ELSE NewPayload(new_hash)

\* Whether save_with_hash_check calls doc_ref.set.
SaveWrites(old, new_hash) == SaveStatus(old, new_hash) # "nochange"

\* scrape main(): one article of a scrape run is saved.
Save(id, new_hash) ==
    /\ store' = [store EXCEPT ![id] = SaveDoc(store[id], new_hash)]
    /\ last' = [NoCall EXCEPT !.op = "save", !.id = id, !.hash = new_hash,
                              !.old_exists = store[id].exists,
                              !.old_hash = store[id].quick_hash,
                              !.was = store[id].scriptStatus,
                              !.ret = SaveStatus(store[id], new_hash),
                              !.wrote = SaveWrites(store[id], new_hash),
                              !.again = (last.op = "save" /\ last.id = id /\ last.hash = new_hash),
                              !.same = (store'[id] = store[id])]
    /\ UNCHANGED <<config, run, job>>

Scrape == \E id \in DocIds, h \in Hashes : Save(id, h)

(* ---------------------------------------------------------------------- *)
(* FirestoreClient.query_pending_transform                                *)
(* ---------------------------------------------------------------------- *)

Min(a, b) == IF a < b THEN a ELSE b

\* A query that leaves out the scrapeStatus filter.
MatchingAnyScrape(st, script_status) ==
    {d \in DocIds : st[d].exists /\ st[d].scriptStatus = script_status}

\* The documents a query with the two filters matches.
Matching(st, script_status) ==
    {d \in DocIds : /\ st[d].exists
                    /\ st[d].scriptStatus = script_status
                    /\ st[d].scrapeStatus \in {"new", "updated"}}

\* list(query.limit(n).stream()): the query names no order, so the stream is
\* any sequence of distinct matching documents, cut at n (n = 0: not cut).
Stream(S, n) ==
    LET k == IF n = 0 THEN Cardinality(S) ELSE Min(n, Cardinality(S))
    IN  {s \in [1..k -> S] : \A i, j \in 1..k : i # j => s[i] # s[j]}

\* d.to_dict().get("scraped_at") or 0
SortKey(st, d) == st[d].scraped_at

\* docs with d put behind every element whose key is not larger (list.sort
\* is stable).
RECURSIVE InsertByKey(_, _, _)
InsertByKey(st, docs, d) ==
    IF docs = <<>> THEN <<d>>
    ELSE IF SortKey(st, docs[Len(docs)]) <= SortKey(st, d)
         THEN Append(docs, d)
         ELSE Append(InsertByKey(st, SubSeq(docs, 1, Len(docs) - 1), d), docs[Len(docs)])

RECURSIVE SortByScrapedAt(_, _)
SortByScrapedAt(st, docs) ==
    IF docs = <<>> THEN <<>>
    ELSE InsertByKey(st, SortByScrapedAt(st, SubSeq(docs, 1, Len(docs) - 1)), docs[Len(docs)])

\* The room the first query leaves for scriptStatus == False documents.
FalseRoom(limit, found) == IF limit # 0 /\ found < limit THEN limit - found ELSE 0

\* Every list query_pending_transform(limit) can return on store st.
QueryPendingTransform(st, limit) ==
    UNION {
        {SortByScrapedAt(st, unset \o failed) :
            failed \in IF FalseRoom(limit, Len(unset)) > 0
                       THEN Stream(Matching(st, False), FalseRoom(limit, Len(unset)))
                       ELSE {<<>>}} :
        unset \in Stream(Matching(st, None), limit)}

(* ---------------------------------------------------------------------- *)
(* transform main()                                                       *)
(* ---------------------------------------------------------------------- *)

\* A transformer call either returns a result, returns None, or raises.
Outcomes == {"result", "none", "raise"}

\* The script an LLM reply yields where the video pipeline is not followed
\* scene by scene: one beat with narration and image prompt.
OneBeatScript == <<Beat(TRUE, TRUE)>>

\* Whether VideoShortTransformer.transform finds a script with beats in
\* article["transformedContent"].
HasScript(tc) == "text_script" \in DOMAIN tc /\ tc["text_script"].beats # <<>>

\* transformer.transform_with_filter(article) for outcome out: tc is
\* article["transformedContent"], beats the script the LLM's reply yields,
\* videos the aspect ratios a video was stored for.
TransformWithFilter(t, tc, out, beats, videos) ==
    IF out # "result" THEN NoResult
    ELSE IF t = "video_short"
         THEN IF HasScript(tc) /\ videos # {} THEN Result(<<>>, videos) ELSE NoResult
    ELSE IF t = "text_script"
         THEN IF beats # <<>> THEN Result(beats, {}) ELSE NoResult
    ELSE Result(<<>>, {})

\* The state of the loop over the transformers: transformed_content,
\* transform_status, article["transformedContent"], an exception raised, and
\* the transformers whose call returned a result.
LoopStart(article) ==
    [content |-> EmptyMap, status |-> EmptyMap,
     tc |-> article.transformedContent, raised |-> FALSE, returned |-> {}]

\* f with key k set to v.
Put(f, k, v) == [x \in DOMAIN f \cup {k} |-> IF x = k THEN v ELSE f[x]]

\* A loop body that records no status for a transformer without result.
LoopBodyNoFailStatus(acc, t, res) ==
    IF res.ok
    THEN LET content == Put(acc.content, t, res)
         IN  [acc EXCEPT !.content = content,
                         !.status = Put(acc.status, t, "completed"),
                         !.tc = content]
    ELSE acc

\* One pass of the loop body for transformer t that returned res.
LoopBody(acc, t, res) ==
    IF res.ok
    THEN LET content == Put(acc.content, t, res)
         IN  [acc EXCEPT !.content = content,
                         !.status = Put(acc.status, t, "completed"),
                         !.tc = content]
    ELSE [acc EXCEPT !.status = Put(acc.status, t, "skipped_or_failed")]

\* The loop over transformers.items() from position i on.
RECURSIVE RunTransformers(_, _, _, _, _)
RunTransformers(i, acc, outs, beats, videos) ==
    IF i > Len(TransformOrder) THEN acc
    ELSE LET t == TransformOrder[i]
             res == TransformWithFilter(t, acc.tc, outs[t], beats, videos)
             ret == IF res.ok THEN acc.returned \cup {t} ELSE acc.returned
         IN  IF t \notin enabled THEN RunTransformers(i + 1, acc, outs, beats, videos)
             ELSE IF outs[t] = "raise" THEN [acc EXCEPT !.raised = TRUE]
             ELSE RunTransformers(i + 1, [LoopBody(acc, t, res) EXCEPT !.returned = ret],
                                  outs, beats, videos)

\* update_data of the loop's result.
UpdateData(acc) ==
    [transformedContent |-> acc.content, transformStatus |-> acc.status, scriptStatus |-> True]

\* A run that saves what it has when a later transformer raises.
IssuesUpdateDespiteRaise(acc) == acc.content # EmptyMap

\* Whether main() calls update_document for the record.
IssuesUpdate(acc) == ~acc.raised /\ acc.content # EmptyMap

\* update_document(doc_id, data): the named fields are replaced.
UpdateDocument(doc, data) ==
    [doc EXCEPT !.transformedContent = data.transformedContent,
                !.transformStatus = data.transformStatus,
                !.scriptStatus = data.scriptStatus]

\* doc.id and the fields of doc.to_dict() the transformers read.
Snapshot(st, d) ==
    [id |-> d, quick_hash |-> st[d].quick_hash, transformedContent |-> st[d].transformedContent]

Idle == [pc |-> "idle", docs |-> <<>>]

\* No image file.
NoImage ==
    [scene |-> 0, ratio |-> "", kind |-> "none", size |-> <<0, 0>>, after_failure |-> FALSE]

\* No record is in the loop body: nothing of the video pipeline exists.
NoJob ==
    [pc |-> "idle", id |-> 0, hash |-> 0,
     acc |-> LoopStart([transformedContent |-> EmptyMap]),
     admitted |-> FALSE, beats |-> <<>>, i |-> 0, r |-> 0, k |-> 0,
     scene_assets |-> <<>>, scene_videos |-> <<>>, image |-> NoImage,
     made |-> EmptyMap, assembled |-> EmptyMap, uploads |-> <<>>, results |-> {},
     visited |-> {}, aborted |-> FALSE, broke |-> {},
     tmpdir |-> "none", files |-> {}, leftover |-> {}, faults |-> 0]

\* main(): the query, and the early returns on no documents and no transformers.
StartTransform ==
    /\ run.pc = "idle"
    /\ \E docs \in QueryPendingTransform(store, batch_limit) :
          run' = IF docs = <<>> \/ enabled = {}
                 THEN Idle
                 ELSE [pc |-> "running",
                       docs |-> [i \in 1..Len(docs) |-> Snapshot(store, docs[i])]]
    /\ UNCHANGED <<config, store, last, job>>

\* The run with its first document done.
Advance(r) ==
    IF Len(r.docs) = 1 THEN Idle ELSE [r EXCEPT !.docs = Tail(r.docs)]

\* The record of one processed document.
Processed(id, hash, acc, applied) ==
    [NoCall EXCEPT !.op = "doc", !.id = id, !.hash = hash,
                   !.returned = acc.returned,
                   !.raised = acc.raised,
                   !.issued = IF IssuesUpdate(acc) THEN 1 ELSE 0,
                   !.applied = applied,
                   !.same = (store'[id] = store[id])]

\* main(): the body of `for doc in docs` for the next document, every
\* transformer's call an outcome of its own.
ProcessDoc ==
    /\ run.pc = "running"
    /\ LET doc == Head(run.docs)
       IN  \E outs \in [enabled -> Outcomes],
              videos \in SUBSET {aspect_ratios[i] : i \in 1..Len(aspect_ratios)} \ {{}},
              update_ok \in BOOLEAN :
              LET acc == RunTransformers(1, LoopStart(doc), outs, OneBeatScript, videos)
                  applied == IssuesUpdate(acc) /\ update_ok /\ store[doc.id].exists
              IN  /\ store' = IF applied
                              THEN [store EXCEPT ![doc.id] = UpdateDocument(@, UpdateData(acc))]
                              ELSE store
                  /\ last' = Processed(doc.id, doc.quick_hash, acc, applied)
    /\ run' = Advance(run)
    /\ UNCHANGED <<config, job>>

(* ---------------------------------------------------------------------- *)
(* The record state machine                                               *)
(* ---------------------------------------------------------------------- *)

\* The configurations followed: which transformers are enabled.
Configs == {{}, {"text_script"}, {"text_script", "video_short"}}

Init ==
    /\ store = [d \in DocIds |-> NoDoc]
    /\ enabled \in Configs
    /\ aspect_ratios = <<"1:1">>
    /\ batch_limit \in 1..MaxLimit
    /\ run = Idle
    /\ last = NoCall
    /\ generate_images = FALSE
    /\ bgm_enabled = FALSE
    /\ job = NoJob

\* The external scheduler starts one run at a time: a scrape run is not
\* started while a transform run is under way.
ScrapeRun == run.pc = "idle" /\ Scrape

Next == ScrapeRun \/ StartTransform \/ ProcessDoc

Spec == Init /\ [][Next]_vars

(* ---------------------------------------------------------------------- *)
(* Properties of the record state machine                                 *)
(* ---------------------------------------------------------------------- *)

\* A record query_pending_transform can select.
Eligible(doc) ==
    /\ doc.exists
    /\ doc.scrapeStatus \in {"new", "updated"}
    /\ doc.scriptStatus \in {None, False}

\* C1: save_with_hash_check classifies every save. No document with the id:
\* it returns "new" and the document stored has the payload's fingerprint,
\* scrapeStatus new and scriptStatus unset. A document with another
\* fingerprint: it returns "updated" and the document has the new
\* fingerprint, scrapeStatus updated and scriptStatus unset, whatever
\* scriptStatus was. Equal fingerprints: it returns "nochange".
C1_SaveClassifies ==
    last.op = "save" =>
        LET doc == store[last.id]
        IN  /\ ~last.old_exists =>
                /\ last.ret = "new"
                /\ doc.exists /\ doc.quick_hash = last.hash
                /\ doc.scrapeStatus = "new" /\ doc.scriptStatus = None
            /\ last.old_exists /\ last.old_hash # last.hash =>
                /\ last.ret = "updated"
                /\ doc.quick_hash = last.hash
                /\ doc.scrapeStatus = "updated" /\ doc.scriptStatus = None
            /\ last.old_exists /\ last.old_hash = last.hash => last.ret = "nochange"

\* A save returned "updated" for a document whose scriptStatus was True.
C1_Witness ==
    /\ last.op = "save" /\ last.ret = "updated" /\ last.was = True
    /\ store[last.id].scriptStatus = None

\* C2: change detection is idempotent. A save that repeats the save before
\* it (same document, same fingerprint) returns "nochange", calls no set() and
\* leaves the document as the first call left it; and any save whose
\* fingerprint equals the stored one writes nothing.
C2_SaveIdempotent ==
    last.op = "save" =>
        /\ last.again => last.ret = "nochange" /\ ~last.wrote /\ last.same
        /\ last.old_exists /\ last.old_hash = last.hash => ~last.wrote /\ last.same

\* The same fingerprint was saved twice in a row on a transformed document.
C2_Witness ==
    /\ last.op = "save" /\ last.again
    /\ store[last.id].transformedContent # EmptyMap

C5_NoWriteOnFailure ==
    last.op = "doc" /\ (last.returned = {} \/ last.raised) =>
        /\ last.issued = 0 /\ ~last.applied /\ last.same
        /\ Eligible(store[last.id])

\* A transformer raised after another had returned a result.
C5_Witness == last.op = "doc" /\ last.raised /\ last.returned # {}

(* ---------------------------------------------------------------------- *)
(* query_pending_transform on every store content                         *)
(* ---------------------------------------------------------------------- *)

\* The documents a collection may hold, written by this or another writer.
AnyDocs ==
    {NoDoc} \cup
    {[NoDoc EXCEPT !.exists = TRUE, !.quick_hash = 1, !.scraped_at = at,
                   !.scrapeStatus = scrape, !.scriptStatus = script] :
        at \in 0..MaxStamp, scrape \in {"new", "updated", "unchanged"},
        script \in {None, False, True}}

QueryInit ==
    /\ store \in [DocIds -> AnyDocs]
    /\ enabled = {"text_script"}
    /\ aspect_ratios = <<"1:1">>
    /\ batch_limit \in 1..MaxLimit
    /\ run = Idle
    /\ last = NoCall
    /\ generate_images = FALSE
    /\ bgm_enabled = FALSE
    /\ job = NoJob

QuerySpec == QueryInit /\ [][StartTransform]_vars

\* C3: for a positive limit, the list query_pending_transform returns has at
\* most limit records, each with scrapeStatus new or updated and scriptStatus
\* unset or False; these are the records the run processes.
C3_SelectsOnlyEligible ==
    run.pc = "running" =>
        /\ Len(run.docs) <= batch_limit
        /\ \A i \in 1..Len(run.docs) : Eligible(store[run.docs[i].id])

\* The limit cut the list: a record that could be selected was left out.
C3_Witness ==
    /\ run.pc = "running" /\ Len(run.docs) = batch_limit
    /\ \E d \in DocIds :
          Eligible(store[d]) /\ \A i \in 1..Len(run.docs) : run.docs[i].id # d

(* ---------------------------------------------------------------------- *)
(* Repeated transform runs                                                *)
(* ---------------------------------------------------------------------- *)

\* The collection after a scrape run: every document it holds is new.
FairInit ==
    /\ store \in [DocIds -> {NoDoc} \cup {NewPayload(h) : h \in Hashes}]
    /\ enabled \in Configs \ {{}}
    /\ aspect_ratios = <<"1:1">>
    /\ batch_limit \in 1..MaxLimit
    /\ run = Idle
    /\ last = NoCall
    /\ generate_images = FALSE
    /\ bgm_enabled = FALSE
    /\ job = NoJob

FairNext == StartTransform \/ ProcessDoc

\* The scheduler starts a transform run again and again, and a run that has
\* started goes through its documents.
FairSpec ==
    FairInit /\ [][FairNext]_vars /\ WF_vars(StartTransform) /\ WF_vars(ProcessDoc)

\* C6: under repeated transform runs every record that can be selected is
\* in the end processed by some run.
C6_EveryEligibleAttempted ==
    \A d \in DocIds : Eligible(store[d]) ~> (last.op = "doc" /\ last.id = d)

(* ---------------------------------------------------------------------- *)
(* The video pipeline of one record, scene by scene                       *)
(* ---------------------------------------------------------------------- *)

\* The longest script followed.
MaxBeats == 5

\* How many beats of a script may lack a narration text or an image prompt.
MaxOdd == 1

\* How many calls to the outside (LLM, TTS, image generator, encoder,
\* storage, database) may fail while one record is processed.
MaxFaults == 2

\* DEFAULT_ASPECT_RATIO_SIZES, which aspect_ratio_sizes is when the
\* configuration gives no resolution.
AspectRatioSizes ==
    [ratio \in {"1:1", "9:16", "16:9"} |->
        CASE ratio = "1:1" -> <<1080, 1080>>
          [] ratio = "9:16" -> <<1080, 1920>>
          [] ratio = "16:9" -> <<1920, 1080>>]

\* `aspect_ratio in self.aspect_ratio_sizes`.
HasSize(ratio) == ratio \in DOMAIN AspectRatioSizes

\* The aspect ratios a video is rendered for.
RenderTargets == {aspect_ratios[x] : x \in {y \in 1..Len(aspect_ratios) : HasSize(aspect_ratios[y])}}

\* A beat of the script: whether it has a narration text and an image prompt.
BeatKinds == {Beat(text, prompt) : text \in BOOLEAN, prompt \in BOOLEAN}

\* The beats of beats that lack a text or a prompt.
Odd(beats) == {x \in 1..Len(beats) : beats[x] # Beat(TRUE, TRUE)}

\* The scripts the LLM's reply may yield: any number of beats from one on.
ScriptReplies ==
    {beats \in UNION {[1..n -> BeatKinds] : n \in 1..MaxBeats} : Cardinality(Odd(beats)) <= MaxOdd}

\* The loop body for transformer t, and t noted when it returned a result.
WithResult(acc, t, res) ==
    [LoopBody(acc, t, res) EXCEPT !.returned = IF res.ok THEN @ \cup {t} ELSE @]

\* tts.generate: True with a file, False after the retries, an exception, or
\* True with a zero-byte file.
TtsOutcomes == {"ok", "failed", "raised", "empty"}

\* `not success or not os.path.exists(audio_path) or getsize == 0`.
NeedsFallback(tts) == tts # "ok"

\* _generate_silent_mp3: the file is written, or ffmpeg exits with an error,
\* which is caught and printed.
SilentOutcomes == {"ok", "failed"}

\* What is at audio_path when the narration step of a beat is over.
AudioAfter(tts, silent) ==
    IF ~NeedsFallback(tts) THEN "speech"
    ELSE IF silent = "ok" THEN "silent"
    ELSE "missing"

\* The file at scene i's audio_path.
AudioFiles(i, audio) == IF audio = "missing" THEN {} ELSE {<<"audio", i, "">>}

\* tts.generate's temporary PCM file: removed in the finally clause around
\* the conversion, left behind when an attempt fails while writing it.
TtsLeftover(pcm_ok) == IF pcm_ok THEN {} ELSE {"pcm"}

\* create_video's temporary composed image: removed in the finally clause
\* around the encoder run, left behind when saving it fails.
CompositorLeftover(png_ok) == IF png_ok THEN {} ELSE {"png"}

\* The files the image step and the clip step of a scene leave in tmpdir.
ClipFiles(scene, ratio, image, success) ==
    (IF image.kind = "none" THEN {} ELSE {<<"image", scene.scene_id, ratio>>}) \cup
    (IF success THEN {<<"clip", scene.scene_id, ratio>>} ELSE {})

\* The files the assembly of an aspect ratio leaves in tmpdir: the list file
\* of a failed join, the joined video unless moved, the final video.
AssemblyFiles(ratio, concat_ok) ==
    IF ~concat_ok THEN {<<"list", 0, ratio>>}
    ELSE (IF bgm_enabled THEN {<<"temp", 0, ratio>>} ELSE {}) \cup {<<"final", 0, ratio>>}

\* The entry of scene_assets for beat i.
SceneAsset(i, beat, audio) == [scene_id |-> i, prompt |-> beat.prompt, audio |-> audio]

\* _create_placeholder(image_path, width, height).
CreatePlaceholder(scene, ratio, after_failure) ==
    [scene |-> scene.scene_id, ratio |-> ratio, kind |-> "placeholder",
     size |-> AspectRatioSizes[ratio], after_failure |-> after_failure]

\* An image step that leaves no file when the generator fails.
SceneImageNoFallback(scene, ratio, gen_ok) ==
    IF generate_images /\ scene.prompt
    THEN IF gen_ok
         THEN [scene |-> scene.scene_id, ratio |-> ratio, kind |-> "generated",
               size |-> <<0, 0>>, after_failure |-> FALSE]
         ELSE [NoImage EXCEPT !.after_failure = TRUE]
    ELSE CreatePlaceholder(scene, ratio, FALSE)

\* The image step of a scene: the file at image_path when create_video is
\* called. The size of a generated image is the generator's.
SceneImage(scene, ratio, gen_ok) ==
    IF generate_images /\ scene.prompt
    THEN IF gen_ok
         THEN [scene |-> scene.scene_id, ratio |-> ratio, kind |-> "generated",
               size |-> <<0, 0>>, after_failure |-> FALSE]
         ELSE CreatePlaceholder(scene, ratio, TRUE)
    ELSE CreatePlaceholder(scene, ratio, FALSE)

\* compositor.create_video: False when the encoder fails, which it does on a
\* missing or empty input.
CreateVideo(scene, image, enc_ok) ==
    enc_ok /\ image.kind # "none" /\ scene.audio # "missing"

\* A scene loop that puts each new clip in front of the list.
KeepClipInFront(scene_videos, scene, success) ==
    IF success THEN <<scene.scene_id>> \o scene_videos ELSE scene_videos

\* `if success: scene_videos.append(scene_video_path)`.
KeepClip(scene_videos, scene, success) ==
    IF success THEN Append(scene_videos, scene.scene_id) ELSE scene_videos

\* The job at the next aspect ratio.
NextRatio(j) == [j EXCEPT !.pc = "ratio", !.r = @ + 1]

\* The job when an exception leaves the with block.
Abort(j) == [j EXCEPT !.pc = "return", !.aborted = TRUE]

\* The job after stage failed for aspect ratio ratio.
Broke(j, stage, ratio) == [j EXCEPT !.broke = @ \cup {<<stage, ratio>>}]

\* _add_bgm: the music is mixed in, or, the mix failing, the video is copied
\* as it is; without BGM the video is moved.
AddBgm(j, ratio, bgm_ok) ==
    IF bgm_enabled /\ ~bgm_ok THEN Broke(j, "bgm", ratio) ELSE j

\* The video is handed to save_file and its locator put into results.
Store(j, ratio) ==
    [j EXCEPT !.uploads = Append(@, ratio), !.results = @ \cup {ratio}]

\* An assembly that gives the record up when an aspect ratio has no clip.
AssembleStopsOnEmpty(j, ratio, concat_ok, bgm_ok, store_ok) ==
    IF j.scene_videos = <<>> THEN [j EXCEPT !.pc = "return"]
    ELSE LET a == [j EXCEPT !.assembled = Put(@, ratio, j.scene_videos),
                            !.files = @ \cup AssemblyFiles(ratio, concat_ok)]
         IN  IF ~concat_ok THEN Abort(Broke(a, "concat", ratio))
             ELSE IF ~store_ok THEN Abort(Broke(AddBgm(a, ratio, bgm_ok), "store", ratio))
             ELSE NextRatio(Store(AddBgm(a, ratio, bgm_ok), ratio))

\* After the scene loop of an aspect ratio: no clip, continue; else the clips
\* are joined (copied when there is one), the BGM added or the file moved,
\* and the video handed to save_file. A failed join or save raises.
Assemble(j, ratio, concat_ok, bgm_ok, store_ok) ==
    IF j.scene_videos = <<>> THEN NextRatio(j)
    ELSE LET a == [j EXCEPT !.assembled = Put(@, ratio, j.scene_videos),
                            !.files = @ \cup AssemblyFiles(ratio, concat_ok)]
         IN  IF ~concat_ok THEN Abort(Broke(a, "concat", ratio))
             ELSE IF ~store_ok THEN Abort(Broke(AddBgm(a, ratio, bgm_ok), "store", ratio))
             ELSE NextRatio(Store(AddBgm(a, ratio, bgm_ok), ratio))

\* A transformer that reports a video only when every configured aspect
\* ratio has one.
VideoResultNeedsAllRatios(j) ==
    IF j.aborted \/ j.results # {aspect_ratios[x] : x \in 1..Len(aspect_ratios)}
    THEN NoResult
    ELSE Result(<<>>, j.results)

\* What VideoShortTransformer.transform returns.
VideoResult(j) ==
    IF j.aborted \/ j.results = {} THEN NoResult ELSE Result(<<>>, j.results)

\* The failed calls among a step's outcomes.
Failures(S) == Cardinality({x \in S : x})

\* main(): the loop body starts for the next document.
BeginDoc ==
    /\ run.pc = "running"
    /\ job.pc \in {"idle", "done"}
    /\ LET doc == Head(run.docs)
       IN  job' = [NoJob EXCEPT !.pc = "script", !.id = doc.id, !.hash = doc.quick_hash,
                                !.acc = LoopStart(doc)]
    /\ UNCHANGED <<config, store, run, last>>

\* The script transformer's call: a script, no result, or an exception.
ScriptStep ==
    /\ job.pc = "script"
    /\ \E out \in Outcomes, beats \in ScriptReplies :
          LET res == TransformWithFilter("text_script", job.acc.tc, out, beats, {})
              n == IF out = "result" THEN 0 ELSE 1
          IN  /\ job.faults + n <= MaxFaults
              /\ out # "result" => beats = <<Beat(TRUE, TRUE)>>
              /\ job' = IF out = "raise"
                        THEN [job EXCEPT !.pc = "finish", !.acc.raised = TRUE, !.faults = @ + n]
                        ELSE [job EXCEPT !.pc = "video", !.faults = @ + n,
                                         !.acc = WithResult(job.acc, "text_script", res)]
    /\ UNCHANGED <<config, store, run, last>>

\* The video transformer's call up to the scene loop: the filter and the
\* article's validation, the script read from the article, the temporary
\* directory.
VideoEnter ==
    /\ job.pc = "video"
    /\ \E out \in Outcomes :
          /\ out = "raise" => job.faults < MaxFaults
          /\ job' = IF out = "raise"
                    THEN [job EXCEPT !.pc = "finish", !.acc.raised = TRUE, !.faults = @ + 1]
                    ELSE IF out = "none" \/ ~HasScript(job.acc.tc)
                    THEN [job EXCEPT !.pc = "finish",
                                     !.acc = WithResult(job.acc, "video_short", NoResult)]
                    ELSE [job EXCEPT !.pc = "audio", !.admitted = TRUE,
                                     !.beats = job.acc.tc["text_script"].beats,
                                     !.i = 1, !.tmpdir = "open"]
    /\ UNCHANGED <<config, store, run, last>>

\* The narration step of beat i: a beat without text is passed over; else
\* the TTS call, the silent track when it gave no file, and the scene noted.
SceneAudio ==
    /\ job.pc = "audio"
    /\ job.i <= Len(job.beats)
    /\ LET beat == job.beats[job.i]
       IN  IF ~beat.text
           THEN job' = [job EXCEPT !.i = @ + 1]
           ELSE \E tts \in TtsOutcomes, silent \in SilentOutcomes, pcm_ok \in BOOLEAN :
                   LET n == Failures({NeedsFallback(tts)}) +
                            Failures({NeedsFallback(tts) /\ silent # "ok"}) +
                            Failures({~pcm_ok})
                       audio == AudioAfter(tts, silent)
                   IN  /\ ~NeedsFallback(tts) => silent = "ok"
                       /\ job.faults + n <= MaxFaults
                       /\ job' = [job EXCEPT
                                    !.i = @ + 1,
                                    !.faults = @ + n,
                                    !.files = @ \cup AudioFiles(job.i, audio),
                                    !.leftover = @ \cup TtsLeftover(pcm_ok),
                                    !.scene_assets = Append(@, SceneAsset(job.i, beat, audio))]
    /\ UNCHANGED <<config, store, run, last>>

\* After the beats: without a scene the transformer returns None.
AudioDone ==
    /\ job.pc = "audio"
    /\ job.i > Len(job.beats)
    /\ job' = IF job.scene_assets = <<>>
              THEN [job EXCEPT !.pc = "return"]
              ELSE [job EXCEPT !.pc = "ratio", !.r = 1]
    /\ UNCHANGED <<config, store, run, last>>

\* The head of the loop over aspect_ratios: a ratio without resolution is
\* passed over.
RatioBegin ==
    /\ job.pc = "ratio"
    /\ job.r <= Len(aspect_ratios)
    /\ LET ratio == aspect_ratios[job.r]
       IN  job' = IF ~HasSize(ratio)
                  THEN NextRatio(job)
                  ELSE [job EXCEPT !.pc = "clip", !.k = 1, !.scene_videos = <<>>,
                                   !.image = NoImage,
                                   !.visited = @ \cup {ratio},
                                   !.made = Put(@, ratio, {})]
    /\ UNCHANGED <<config, store, run, last>>

\* One scene of one aspect ratio: the image, then the clip.
SceneClip ==
    /\ job.pc = "clip"
    /\ job.k <= Len(job.scene_assets)
    /\ LET scene == job.scene_assets[job.k]
           ratio == aspect_ratios[job.r]
       IN  \E gen_ok \in BOOLEAN, png_ok \in BOOLEAN, enc_ok \in BOOLEAN :
              LET image == SceneImage(scene, ratio, gen_ok)
                  success == CreateVideo(scene, image, enc_ok)
                  n == Failures({~gen_ok}) + Failures({~enc_ok})
              IN  /\ ~(generate_images /\ scene.prompt) => gen_ok
                  /\ ~png_ok => ~enc_ok
                  /\ job.faults + n <= MaxFaults
                  /\ job' = [job EXCEPT
                               !.k = @ + 1,
                               !.faults = @ + n,
                               !.image = image,
                               !.files = @ \cup ClipFiles(scene, ratio, image, success),
                               !.leftover = @ \cup CompositorLeftover(png_ok),
                               !.scene_videos = KeepClip(@, scene, success),
                               !.made = IF success
                                        THEN Put(@, ratio, @[ratio] \cup {scene.scene_id})
                                        ELSE @]
    /\ UNCHANGED <<config, store, run, last>>

\* After the scenes of an aspect ratio: the video is assembled and stored.
RatioAssemble ==
    /\ job.pc = "clip"
    /\ job.k > Len(job.scene_assets)
    /\ \E concat_ok \in BOOLEAN, bgm_ok \in BOOLEAN, store_ok \in BOOLEAN :
          LET called == job.scene_videos # <<>>
              n == Failures({~concat_ok}) + Failures({~bgm_ok}) + Failures({~store_ok})
          IN  /\ ~(called /\ Len(job.scene_videos) > 1) => concat_ok
              /\ ~(called /\ concat_ok /\ bgm_enabled) => bgm_ok
              /\ ~(called /\ concat_ok) => store_ok
              /\ job.faults + n <= MaxFaults
              /\ job' = [Assemble(job, aspect_ratios[job.r], concat_ok, bgm_ok, store_ok)
                            EXCEPT !.faults = @ + n]
    /\ UNCHANGED <<config, store, run, last>>

\* The video transformer returns: the temporary directory is removed, the
\* result enters the loop body of main().
VideoReturn ==
    /\ \/ job.pc = "return"
       \/ job.pc = "ratio" /\ job.r > Len(aspect_ratios)
    /\ job' = [job EXCEPT !.pc = "finish", !.tmpdir = "removed", !.files = {},
                          !.acc = WithResult(job.acc, "video_short", VideoResult(job))]
    /\ UNCHANGED <<config, store, run, last>>

\* main(): the update of the document, or none, and the next document.
FinishDoc ==
    /\ job.pc = "finish"
    /\ \E update_ok \in BOOLEAN :
          LET n == Failures({IssuesUpdate(job.acc) /\ ~update_ok})
              applied == IssuesUpdate(job.acc) /\ update_ok /\ store[job.id].exists
          IN  /\ ~IssuesUpdate(job.acc) => update_ok
              /\ job.faults + n <= MaxFaults
              /\ store' = IF applied
                          THEN [store EXCEPT ![job.id] = UpdateDocument(@, UpdateData(job.acc))]
                          ELSE store
              /\ last' = Processed(job.id, job.hash, job.acc, applied)
              /\ job' = [job EXCEPT !.pc = "done", !.faults = @ + n]
    /\ run' = Advance(run)
    /\ UNCHANGED config

\* The aspect ratio lists followed: one, two, and one the table of
\* resolutions does not have.
RatioConfigs == {<<"1:1">>, <<"1:1", "9:16">>, <<"4:5", "1:1">>}

\* One scraped record waits for its transform run.
VideoInit ==
    /\ store = [d \in DocIds |-> IF d = 1 THEN NewPayload(1) ELSE NoDoc]
    /\ enabled = {"text_script", "video_short"}
    /\ aspect_ratios \in RatioConfigs
    /\ batch_limit = 1
    /\ generate_images \in BOOLEAN
    /\ bgm_enabled \in BOOLEAN
    /\ run = Idle
    /\ last = NoCall
    /\ job = NoJob

\* The run that takes the record: a later run finds it as a failed one left
\* it, or transformed, and is not followed.
FirstRun == job.pc = "idle" /\ StartTransform

VideoNext ==
    \/ FirstRun
    \/ BeginDoc
    \/ ScriptStep
    \/ VideoEnter
    \/ SceneAudio
    \/ AudioDone
    \/ RatioBegin
    \/ SceneClip
    \/ RatioAssemble
    \/ VideoReturn
    \/ FinishDoc

VideoSpec == VideoInit /\ [][VideoNext]_vars

(* ---------------------------------------------------------------------- *)
(* Properties of the video pipeline                                       *)
(* ---------------------------------------------------------------------- *)

\* The elements of sequence q.
Range(q) == {q[x] : x \in 1..Len(q)}

\* How often v is in sequence q.
Count(q, v) == Cardinality({x \in 1..Len(q) : q[x] = v})

\* The record went through its run with every call succeeding, a script whose
\* beats all have a narration text, and the video transformer taking it.
CleanRun ==
    /\ job.pc = "done" /\ job.faults = 0
    /\ job.beats # <<>> /\ \A x \in 1..Len(job.beats) : job.beats[x].text

\* The record holds the script, a video locator for each ratio of S and
\* scriptStatus True, each ratio's video made of one clip per beat and
\* stored once.
Published(S) ==
    LET doc == store[job.id]
    IN  /\ last.op = "doc" /\ last.id = job.id /\ last.issued = 1
        /\ doc.scriptStatus = True
        /\ "text_script" \in DOMAIN doc.transformedContent
        /\ doc.transformedContent["text_script"].beats = job.beats
        /\ "video_short" \in DOMAIN doc.transformedContent
        /\ doc.transformedContent["video_short"].videos = S
        /\ Range(job.uploads) = S
        /\ \A ratio \in S :
              /\ Count(job.uploads, ratio) = 1
              /\ ratio \in DOMAIN job.assembled
              /\ job.assembled[ratio] = [x \in 1..Len(job.beats) |-> x]

C8_AudioAlwaysExists ==
    \A x \in 1..Len(job.scene_assets) : job.scene_assets[x].audio # "missing"

\* C9: when create_video has been called for a scene, an image file was at
\* the scene's image path: the generated image, which takes image generation
\* switched on and a prompt, or else a placeholder of the aspect ratio's
\* width and height; and after a failed generation the scene loop goes on.
C9_ImageBeforeCompositor ==
    job.pc = "clip" /\ job.k > 1 =>
        LET scene == job.scene_assets[job.k - 1]
            ratio == aspect_ratios[job.r]
        IN  /\ job.image.scene = scene.scene_id /\ job.image.ratio = ratio
            /\ job.image.kind \in {"generated", "placeholder"}
            /\ job.image.kind = "generated" => generate_images /\ scene.prompt
            /\ job.image.kind = "placeholder" => job.image.size = AspectRatioSizes[ratio]
            /\ job.image.after_failure => job.image.kind = "placeholder" /\ ~job.aborted

\* The generator failed for a scene, and its clip was made from the placeholder.
C9_Witness ==
    /\ job.pc = "clip" /\ job.k > 1
    /\ job.image.after_failure /\ job.image.kind = "placeholder"
    /\ job.scene_assets[job.k - 1].scene_id \in job.made[aspect_ratios[job.r]]

\* The aspect ratios whose scene loop is over.
ScenesDone ==
    {ratio \in job.visited :
        \/ job.pc \in {"return", "finish", "done"}
        \/ job.pc = "ratio"
        \/ job.pc = "clip" /\ ratio # aspect_ratios[job.r]}

\* C10: the clips joined for an aspect ratio are those of exactly the scenes
\* whose create_video succeeded; an aspect ratio without any clip gets no
\* video and no storage write; and unless an exception ends the transformer,
\* every aspect ratio with a resolution gets its scene loop.
C10_FailedClipLeftOut ==
    /\ \A ratio \in ScenesDone :
          IF job.made[ratio] = {}
          THEN ratio \notin DOMAIN job.assembled /\ ratio \notin Range(job.uploads)
          ELSE /\ ratio \in DOMAIN job.assembled
               /\ Range(job.assembled[ratio]) = job.made[ratio]
               /\ Len(job.assembled[ratio]) = Cardinality(job.made[ratio])
    /\ job.pc \in {"finish", "done"} /\ job.scene_assets # <<>> /\ ~job.aborted =>
          job.visited = RenderTargets

\* Both clips of the first aspect ratio failed; the second aspect ratio's
\* video was stored.
C10_Witness ==
    /\ job.pc = "done" /\ Len(job.scene_assets) = 2
    /\ "1:1" \in job.visited /\ job.made["1:1"] = {}
    /\ job.uploads = <<"9:16">>
    /\ store[job.id].scriptStatus = True

\* The video transformer has returned, a join or a music mix having failed
\* for some aspect ratio, and nothing else.
StageFailed ==
    /\ job.pc \in {"finish", "done"} /\ job.admitted /\ ~job.acc.raised
    /\ job.broke # {}
    /\ \A b \in job.broke : b[1] \in {"concat", "bgm"}

\* C11: when the join or the music mix of one aspect ratio fails, the scene
\* loop of every aspect ratio with a resolution is still run, and the videos
\* stored are in the result the transformer returns.
C11_StageFailureNotFatal ==
    StageFailed =>
        /\ job.visited = RenderTargets
        /\ job.uploads # <<>> =>
              /\ "video_short" \in job.acc.returned
              /\ job.acc.content["video_short"].videos = Range(job.uploads)

\* Sequence q of numbers is strictly ascending.
Ascending(q) == \A x \in 1..Len(q), y \in 1..Len(q) : x < y => q[x] < q[y]

\* C12: the clips passed to the join for an aspect ratio, and the clips
\* gathered so far in a scene loop, are in strictly ascending scene ordinal,
\* each the ordinal of a beat of the script that has a narration text.
C12_SceneOrderKept ==
    /\ Ascending(job.scene_videos)
    /\ \A ratio \in DOMAIN job.assembled :
          /\ Ascending(job.assembled[ratio])
          /\ \A x \in Range(job.assembled[ratio]) :
                x \in 1..Len(job.beats) /\ job.beats[x].text

\* A beat without text was passed over and the clip of another scene failed:
\* three of five scenes were joined.
C12_Witness ==
    \E ratio \in DOMAIN job.assembled :
        /\ Len(job.beats) = 5 /\ Len(job.scene_assets) = 4
        /\ Len(job.assembled[ratio]) = 3

\* VideoShortTransformer.transform has returned after creating its workspace.
Returned == job.pc \in {"finish", "done"} /\ job.tmpdir # "none"

\* C13: when transform has returned after creating the workspace, the
\* workspace and every file in it are gone, and no temporary PCM file of the
\* TTS and no temporary composed image of the compositor is left.
C13_NothingLeftBehind ==
    Returned => job.tmpdir = "removed" /\ job.files = {} /\ job.leftover = {}

\* C14: when transform has returned, the videos handed to storage in the
\* run are those of the result it returned: none when it returned None.
C14_NoVideoOfFailedRun ==
    Returned =>
        Range(job.uploads) =
            IF "video_short" \in job.acc.returned
            THEN job.acc.content["video_short"].videos
            ELSE {}

(* ---------------------------------------------------------------------- *)
(* The JSON extractors                                                    *)
(* ---------------------------------------------------------------------- *)

\* The longest text of which every spelling is followed.
MaxText == 3

\* The longest prose put before and after a JSON object.
MaxProse == 1

\* The characters of a text. "#" stands for a code fence (three backticks),
\* "a" for a letter, "1" for a digit.
Chars == {"{", "}", "[", "]", "\"", "\\", "a", "1", ":", ",", " ", "#"}

\* The texts over S with at most n characters.
TextsOver(S, n) == UNION {[1..m -> S] : m \in 0..n}

\* text[from:], one-based.
From(t, from) == SubSeq(t, from, Len(t))

\* text.find(c, from): the first position at or after from, 0 for -1.
RECURSIVE Find(_, _, _)
Find(t, c, from) ==
    IF from > Len(t) THEN 0
    ELSE IF t[from] = c THEN from
    ELSE Find(t, c, from + 1)

\* The first position at or after i that holds no character of S.
RECURSIVE Skip(_, _, _)
Skip(t, S, i) ==
    IF i <= Len(t) /\ t[i] \in S THEN Skip(t, S, i + 1) ELSE i

\* The last position at or before i that holds no character of S.
RECURSIVE SkipBack(_, _, _)
SkipBack(t, S, i) ==
    IF i >= 1 /\ t[i] \in S THEN SkipBack(t, S, i - 1) ELSE i

Whitespace == {" ", "\n"}

\* str.strip().
Strip(t) == SubSeq(t, Skip(t, Whitespace, 1), SkipBack(t, Whitespace, Len(t)))

(* json.loads *)

\* A JSON value: its type, its spelling without insignificant whitespace,
\* and for a list the type and spelling of its first element.
Val(next, type, repr, head, head_repr) ==
    [ok |-> TRUE, next |-> next, type |-> type, repr |-> repr,
     head |-> head, head_repr |-> head_repr]

\* json.loads raises.
Fail ==
    [ok |-> FALSE, next |-> 0, type |-> "none", repr |-> <<>>,
     head |-> "none", head_repr |-> <<>>]

\* The characters that may follow a backslash in a string literal.
Escapable == {"\"", "\\"}

\* The position after the quote that closes the string literal whose
\* content begins at j, 0 when the literal is not well-formed.
RECURSIVE StringEnd(_, _)
StringEnd(t, j) ==
    IF j > Len(t) THEN 0
    ELSE IF t[j] = "\"" THEN j + 1
    ELSE IF t[j] = "\\"
         THEN IF j + 1 <= Len(t) /\ t[j + 1] \in Escapable THEN StringEnd(t, j + 2) ELSE 0
    ELSE StringEnd(t, j + 1)

RECURSIVE ParseValue(_, _)
RECURSIVE ParseElements(_, _, _, _, _)
RECURSIVE ParseMembers(_, _, _)

\* The elements of an array from position i on; acc is the spelling so far.
ParseElements(t, i, acc, head, head_repr) ==
    LET v == ParseValue(t, i)
        k == Skip(t, Whitespace, v.next)
        first == acc = <<"[">>
        h == IF first THEN v.type ELSE head
        hr == IF first THEN v.repr ELSE head_repr
    IN  IF ~v.ok \/ k > Len(t) THEN Fail
        ELSE IF t[k] = "," THEN ParseElements(t, k + 1, acc \o v.repr \o <<",">>, h, hr)
        ELSE IF t[k] = "]" THEN Val(k + 1, "list", acc \o v.repr \o <<"]">>, h, hr)
        ELSE Fail

\* The members of an object from position i on.
ParseMembers(t, i, acc) ==
    LET k == Skip(t, Whitespace, i)
        e == IF k <= Len(t) /\ t[k] = "\"" THEN StringEnd(t, k + 1) ELSE 0
        c == Skip(t, Whitespace, e)
        v == IF e # 0 /\ c <= Len(t) /\ t[c] = ":" THEN ParseValue(t, c + 1) ELSE Fail
        n == Skip(t, Whitespace, v.next)
        member == SubSeq(t, k, e - 1) \o <<":">> \o v.repr
    IN  IF ~v.ok \/ n > Len(t) THEN Fail
        ELSE IF t[n] = "," THEN ParseMembers(t, n + 1, acc \o member \o <<",">>)
        ELSE IF t[n] = "}" THEN Val(n + 1, "dict", acc \o member \o <<"}">>, "none", <<>>)
        ELSE Fail

\* The JSON value that begins at position i, whitespace before it skipped.
ParseValue(t, i) ==
    LET k == Skip(t, Whitespace, i)
    IN  IF k > Len(t) THEN Fail
        ELSE IF t[k] = "\""
             THEN LET e == StringEnd(t, k + 1)
                  IN  IF e = 0 THEN Fail
                      ELSE Val(e, "str", SubSeq(t, k, e - 1), "none", <<>>)
        ELSE IF t[k] = "1"
             THEN LET e == Skip(t, {"1"}, k)
                  IN  Val(e, "int", SubSeq(t, k, e - 1), "none", <<>>)
        ELSE IF t[k] = "["
             THEN LET c == Skip(t, Whitespace, k + 1)
                  IN  IF c <= Len(t) /\ t[c] = "]"
                      THEN Val(c + 1, "list", <<"[", "]">>, "none", <<>>)
                      ELSE ParseElements(t, k + 1, <<"[">>, "none", <<>>)
        ELSE IF t[k] = "{"
             THEN LET c == Skip(t, Whitespace, k + 1)
                  IN  IF c <= Len(t) /\ t[c] = "}"
                      THEN Val(c + 1, "dict", <<"{", "}">>, "none", <<>>)
                      ELSE ParseMembers(t, k + 1, <<"{">>)
        ELSE Fail

\* json.loads(t): one value and nothing but whitespace around it.
JsonLoads(t) ==
    LET v == ParseValue(t, 1)
    IN  IF v.ok /\ Skip(t, Whitespace, v.next) > Len(t) THEN v ELSE Fail

(* The depth-counting scan *)

\* A scan that stops at the first closing bracket, wherever it is.
ScanBlind(t, start, open, close) == Find(t, close, start)

\* `for i in range(start, len(text))`: the position where depth returns
\* to 0, 0 when the loop ends without.
RECURSIVE ScanFrom(_, _, _, _, _, _, _)
ScanFrom(t, i, depth, in_string, escape, open, close) ==
    IF i > Len(t) THEN 0
    ELSE IF in_string
         THEN IF escape THEN ScanFrom(t, i + 1, depth, TRUE, FALSE, open, close)
              ELSE IF t[i] = "\\" THEN ScanFrom(t, i + 1, depth, TRUE, TRUE, open, close)
              ELSE IF t[i] = "\"" THEN ScanFrom(t, i + 1, depth, FALSE, FALSE, open, close)
              ELSE ScanFrom(t, i + 1, depth, TRUE, FALSE, open, close)
    ELSE IF t[i] = "\"" THEN ScanFrom(t, i + 1, depth, TRUE, escape, open, close)
    ELSE IF t[i] = open THEN ScanFrom(t, i + 1, depth + 1, FALSE, escape, open, close)
    ELSE IF t[i] = close
         THEN IF depth - 1 = 0 THEN i
              ELSE ScanFrom(t, i + 1, depth - 1, FALSE, escape, open, close)
    ELSE ScanFrom(t, i + 1, depth, FALSE, escape, open, close)

\* The scan from the bracket at start.
Scan(t, start, open, close) == ScanFrom(t, start, 0, FALSE, FALSE, open, close)

\* Optional[str]: None.
NoText == [found |-> FALSE, text |-> <<>>]

\* extract_json_object from the '{' at start on; start = 0 ends the loop.
RECURSIVE ExtractObjectFrom(_, _)
ExtractObjectFrom(t, start) ==
    IF start = 0 THEN NoText
    ELSE LET e == Scan(t, start, "{", "}")
         IN  IF e # 0 THEN [found |-> TRUE, text |-> SubSeq(t, start, e)]
             ELSE ExtractObjectFrom(t, Find(t, "{", start + 1))

\* extract_json_object(text).
ExtractJsonObject(t) ==
    IF t = <<>> THEN NoText ELSE ExtractObjectFrom(t, Find(t, "{", 1))

(* Code fences *)

\* strip_code_fence(text): the text between the fence that opens the text
\* and the fence that closes it, else between the first two fences, else
\* the text.
StripCodeFence(t) ==
    LET a == Skip(t, Whitespace, 1)
        z == SkipBack(t, Whitespace, Len(t))
        p == Find(t, "#", 1)
        q == Find(t, "#", p + 1)
        Inner(x, y) == SubSeq(t, Skip(t, Whitespace, x + 1),
                                 SkipBack(SubSeq(t, 1, y - 1), Whitespace, y - 1))
        Group(x, y) == IF Skip(t, Whitespace, x + 1) >= y THEN <<>> ELSE Inner(x, y)
    IN  IF t = <<>> THEN t
        ELSE IF a < z /\ t[a] = "#" /\ t[z] = "#" THEN Group(a, z)
        ELSE IF p # 0 /\ q # 0 THEN Group(p, q)
        ELSE t

\* re.sub of a fence at the start, with the characters of tag and the
\* whitespace after it, and of a fence at the end with the whitespace
\* before it.
SubFences(s, tag) ==
    LET lead == IF s # <<>> /\ s[1] = "#"
                THEN From(s, Skip(s, Whitespace, Skip(s, tag, 2)))
                ELSE s
    IN  IF lead # <<>> /\ lead[Len(lead)] = "#"
        THEN SubSeq(lead, 1, SkipBack(lead, Whitespace, Len(lead) - 1))
        ELSE lead

(* The extractors *)

\* What an extractor returns: a dict, a list or None; parsed says whether
\* it is a structure parsed from the text.
Out(parsed, type, repr) == [parsed |-> parsed, type |-> type, repr |-> repr]

EmptyObject == <<"{", "}">>
EmptyArray == <<"[", "]">>

\* parse_json_loose(text).
ParseJsonLoose(t) ==
    LET s == StripCodeFence(Strip(t))
        whole == JsonLoads(s)
        fragment == ExtractJsonObject(s)
        part == JsonLoads(fragment.text)
    IN  IF t = <<>> THEN Out(FALSE, "dict", EmptyObject)
        ELSE IF whole.ok /\ whole.type = "dict" THEN Out(TRUE, "dict", whole.repr)
        ELSE IF whole.ok /\ whole.type = "list" /\ whole.repr # EmptyArray /\ whole.head = "dict"
             THEN Out(TRUE, "dict", whole.head_repr)
        ELSE IF fragment.found /\ fragment.text # <<>> /\ part.ok /\ part.type = "dict"
             THEN Out(TRUE, "dict", part.repr)
        ELSE Out(FALSE, "dict", EmptyObject)

\* ScriptTransformer._parse_json(raw): one scan, from the first '{'.
ParseJson(raw) ==
    LET s == SubFences(Strip(raw), {})
        whole == JsonLoads(s)
        start == Find(s, "{", 1)
        e == IF start = 0 THEN 0 ELSE Scan(s, start, "{", "}")
        part == IF e = 0 THEN Fail ELSE JsonLoads(SubSeq(s, start, e))
    IN  IF whole.ok /\ whole.type = "dict" THEN Out(TRUE, "dict", whole.repr)
        ELSE IF part.ok THEN Out(TRUE, part.type, part.repr)
        ELSE Out(FALSE, "none", <<>>)

\* _extract_json_array from the '[' at start on.
RECURSIVE ExtractArrayFrom(_, _)
ExtractArrayFrom(t, start) ==
    IF start = 0 THEN Out(FALSE, "list", EmptyArray)
    ELSE LET e == Scan(t, start, "[", "]")
             part == IF e = 0 THEN Fail ELSE JsonLoads(SubSeq(t, start, e))
         IN  IF part.ok /\ part.type = "list" THEN Out(TRUE, "list", part.repr)
             ELSE ExtractArrayFrom(t, Find(t, "[", start + 1))

\* The characters of a fence's language tag that are characters of a text.
TagChars == {"a", "1"}

\* ScriptTransformer._extract_json_array(text).
ExtractJsonArray(t) ==
    LET s == IF Find(Strip(t), "#", 1) # 0 THEN SubFences(Strip(t), TagChars) ELSE Strip(t)
        whole == JsonLoads(s)
    IN  IF whole.ok /\ whole.type = "list" THEN Out(TRUE, "list", whole.repr)
        ELSE ExtractArrayFrom(s, Find(s, "[", 1))

(* The texts followed *)

\* The contents of string literals: plain, with brackets, with escapes.
StringBodies ==
    {<<>>, <<"a">>, <<"}">>, <<"{">>, <<"]">>, <<"\\", "\"">>, <<"\\", "\\">>,
     <<"{", "\\", "\"", "}">>}

StringLiterals == {<<"\"">> \o b \o <<"\"">> : b \in StringBodies}

Scalars == StringLiterals \cup {<<"1">>, EmptyObject, EmptyArray}

Values ==
    Scalars \cup {<<"[">> \o v \o <<"]">> : v \in Scalars}
            \cup {<<"[", "1", ",">> \o v \o <<"]">> : v \in Scalars}

\* Well-formed JSON objects.
Objects ==
    {EmptyObject} \cup
    {<<"{">> \o key \o <<":">> \o v \o <<"}">> :
        key \in {<<"\"", "a", "\"">>, <<"\"", "}", "\"">>}, v \in Values}

\* A well-formed object at the first '{', prose before and after it.
ObjectsInProse ==
    {[text |-> pre \o obj \o post, object |-> obj, start |-> Len(pre) + 1] :
        pre \in TextsOver(Chars \ {"{"}, MaxProse), obj \in Objects,
        post \in TextsOver(Chars, MaxProse)}

\* Every text of up to MaxText characters.
ShortTexts ==
    {[text |-> t, object |-> <<>>, start |-> 0] : t \in TextsOver(Chars, MaxText)}

\* A balanced fragment that does not parse, before or around a well-formed
\* object or array.
BrokenFirst ==
    {[text |-> around[1] \o v \o around[2], object |-> <<>>, start |-> 0] :
        around \in {<<<<"{", "a", "}">>, <<>>>>, <<<<"{">>, <<"}">>>>,
                    <<<<"[", "a", "]">>, <<>>>>, <<<<"[">>, <<"a", "]">>>>,
                    <<<<"{", "a", "}", "[", "a", "]", " ">>, <<"a">>>>},
        v \in {EmptyObject, EmptyArray, <<"{", "\"", "a", "\"", ":", "1", "}">>, <<"[", "1", "]">>}}

\* A text is handed to an extractor.
Input(in) ==
    [op |-> "text", text |-> in.text, object |-> in.object, start |-> in.start,
     out |-> Out(FALSE, "none", <<>>)]

ExtractInit ==
    /\ last \in {Input(in) : in \in ShortTexts \cup ObjectsInProse \cup BrokenFirst}
    /\ store = [d \in DocIds |-> NoDoc]
    /\ enabled = {"text_script"}
    /\ aspect_ratios = <<"1:1">>
    /\ batch_limit = 1
    /\ generate_images = FALSE
    /\ bgm_enabled = FALSE
    /\ run = Idle
    /\ job = NoJob

\* The call of extractor op on the text returns out.
Extracted(op, out) ==
    /\ last.op = "text"
    /\ last' = [last EXCEPT !.op = op, !.out = out]
    /\ UNCHANGED <<config, store, run, job>>

CallParseJsonLoose == Extracted("parse_json_loose", ParseJsonLoose(last.text))

CallParseJson == Extracted("_parse_json", ParseJson(last.text))

CallExtractJsonArray == Extracted("_extract_json_array", ExtractJsonArray(last.text))

CallExtractJsonObject ==
    LET fragment == ExtractJsonObject(last.text)
    IN  Extracted("extract_json_object", Out(fragment.found, "str", fragment.text))

ExtractNext ==
    \/ CallParseJsonLoose
    \/ CallParseJson
    \/ CallExtractJsonArray
    \/ CallExtractJsonObject

ExtractSpec == ExtractInit /\ [][ExtractNext]_vars

\* The three extractors that return a parsed structure.
Parsers == {"parse_json_loose", "_parse_json", "_extract_json_array"}

\* C15: an extractor that found no structure in the text returns a value
\* that is neither the empty object nor the empty array, the values of a
\* parsed {} and [].
C15_NoStructureIsDistinct ==
    last.op \in Parsers /\ ~last.out.parsed =>
        ~(last.out.type = "dict" /\ last.out.repr = EmptyObject)
        /\ ~(last.out.type = "list" /\ last.out.repr = EmptyArray)

\* C16: when the first '{' of the text opens a well-formed JSON object, with
\* prose before and after it, extract_json_object returns the text of
\* exactly that object and _parse_json the object parsed from it, whatever
\* brackets and escaped quotes its string literals hold.
C16_StringAwareScan ==
    /\ last.op = "extract_json_object" /\ last.start # 0 =>
          last.out.parsed /\ last.out.repr = last.object
    /\ last.op = "_parse_json" /\ last.start # 0 =>
          /\ last.out.parsed /\ last.out.type = "dict"
          /\ last.out.repr = JsonLoads(last.object).repr

\* The object has a string literal with a closing brace and an escaped
\* quote, and prose on both sides.
C16_Witness ==
    /\ last.op = "_parse_json" /\ last.start = 2 /\ last.out.parsed
    /\ last.object = <<"{", "\"", "a", "\"", ":", "[", "1", ",">> \o
                     <<"\"", "{", "\\", "\"", "}", "\"">> \o <<"]", "}">>
    /\ last.text = <<"a">> \o last.object \o <<"}">>

\* The first position of t, in text order, where an `open` starts a balanced
\* fragment that json.loads parses to a value of type `type`; 0 for none.
FirstParseable(t, open, close, type) ==
    LET Parses(p) ==
            /\ t[p] = open
            /\ Scan(t, p, open, close) # 0
            /\ JsonLoads(SubSeq(t, p, Scan(t, p, open, close))).ok
            /\ JsonLoads(SubSeq(t, p, Scan(t, p, open, close))).type = type
        starts == {p \in 1..Len(t) : Parses(p)}
    IN  IF starts = {} THEN 0 ELSE CHOOSE p \in starts : \A q \in starts : p <= q

\* C23: an extractor returns what the first balanced fragment that parses
\* holds, trying every opening character in text order, and reports no
\* structure only when no opening character starts a fragment that parses.
C23_RetriesLaterStarts ==
    last.op \in Parsers =>
        LET array == last.op = "_extract_json_array"
            open == IF array THEN "[" ELSE "{"
            close == IF array THEN "]" ELSE "}"
            p == FirstParseable(last.text, open, close, IF array THEN "list" ELSE "dict")
            fragment == SubSeq(last.text, p, Scan(last.text, p, open, close))
        IN  IF p = 0 THEN ~last.out.parsed
            ELSE last.out.parsed /\ (~JsonLoads(StripCodeFence(Strip(last.text))).ok
                                        => last.out.repr = JsonLoads(fragment).repr)

(* ---------------------------------------------------------------------- *)
(* The scene count                                                        *)
(* ---------------------------------------------------------------------- *)

\* The largest scene_max followed.
MaxScene == 7

\* The longest reply to the scene count prompt followed.
MaxReply == 2

\* The default scene count.
DefaultSceneCount == 5

Max(a, b) == IF a >= b THEN a ELSE b

\* A clamp that forgets the lower limit.
ClampAbove(n, lo, hi) == Min(hi, n)

\* max(lo, min(hi, n)).
Clamp(n, lo, hi) == Max(lo, Min(hi, n))

\* The characters \d matches, with their values.
DigitChars == {"0", "5", "9"}

DigitValue(c) == CASE c = "0" -> 0 [] c = "5" -> 5 [] c = "9" -> 9

\* int(token) for a token of digits.
RECURSIVE IntOf(_)
IntOf(token) ==
    IF token = <<>> THEN 0
    ELSE 10 * IntOf(SubSeq(token, 1, Len(token) - 1)) + DigitValue(token[Len(token)])

\* re.search(r'\d+', raw): the first run of digits, <<>> when there is none.
FirstDigits(raw) ==
    LET p == Skip(raw, {raw[x] : x \in 1..Len(raw)} \ DigitChars, 1)
    IN  SubSeq(raw, p, Skip(raw, DigitChars, p) - 1)

\* What a generate_content call gives: an exception, or the text of a reply.
Replies ==
    {[raised |-> TRUE, text |-> <<>>]} \cup
    {[raised |-> FALSE, text |-> t] : t \in TextsOver(DigitChars \cup {"a", " "}, MaxReply)}

\* raw after a call: _extract_text_safe's stripped text, "" on an exception.
RawOf(reply) == IF reply.raised THEN <<>> ELSE Strip(reply.text)

\* The raw the number is looked for in: the second call's when the first
\* gave nothing.
RawUsed(first, second) == IF RawOf(first) # <<>> THEN RawOf(first) ELSE RawOf(second)

\* The generate_content calls made: the second one `if not raw`.
Requests(first) == IF RawOf(first) = <<>> THEN 2 ELSE 1

\* _get_scene_count for the replies of its two calls.
GetSceneCount(scene_min, scene_max, first, second) ==
    LET raw == RawUsed(first, second)
        token == FirstDigits(raw)
    IN  IF raw # <<>> /\ token # <<>>
        THEN Clamp(IntOf(token), scene_min, scene_max)
        ELSE Clamp(DefaultSceneCount, scene_min, scene_max)

\* A script transformer with its scene range, and the model's two replies.
CountInit ==
    /\ last \in {[op |-> "count", scene_min |-> lo, scene_max |-> hi,
                  first |-> first, second |-> second,
                  requests |-> 0, n |-> 0] :
                    lo \in 1..MaxScene, hi \in 1..MaxScene,
                    first \in Replies, second \in Replies}
    /\ last.scene_min <= last.scene_max
    /\ store = [d \in DocIds |-> NoDoc]
    /\ enabled = {"text_script"}
    /\ aspect_ratios = <<"1:1">>
    /\ batch_limit = 1
    /\ generate_images = FALSE
    /\ bgm_enabled = FALSE
    /\ run = Idle
    /\ job = NoJob

CallGetSceneCount ==
    /\ last.op = "count"
    /\ last' = [last EXCEPT
                  !.op = "_get_scene_count",
                  !.requests = Requests(last.first),
                  !.n = GetSceneCount(last.scene_min, last.scene_max, last.first, last.second)]
    /\ UNCHANGED <<config, store, run, job>>

CountSpec == CountInit /\ [][CallGetSceneCount]_vars

\* The characters of reply that are digits.
HasDigit(raw) == \E x \in 1..Len(raw) : raw[x] \in DigitChars

\* C17: _get_scene_count returns a number from scene_min to scene_max: the
\* first integer of the reply, brought into the range, or 5 brought into the
\* range when the reply used holds no integer or both calls gave nothing.
C17_SceneCountInRange ==
    last.op = "_get_scene_count" =>
        LET raw == RawUsed(last.first, last.second)
        IN  /\ last.scene_min <= last.n /\ last.n <= last.scene_max
            /\ HasDigit(raw) =>
                  LET v == IntOf(FirstDigits(raw))
                  IN  last.n = IF v < last.scene_min THEN last.scene_min
                               ELSE IF v > last.scene_max THEN last.scene_max
                               ELSE v
            /\ ~HasDigit(raw) =>
                  last.n = IF last.scene_min > 5 THEN last.scene_min
                           ELSE IF last.scene_max < 5 THEN last.scene_max
                           ELSE 5

\* The first call raised, the second replied 0: the count is scene_min.
C17_Witness ==
    /\ last.op = "_get_scene_count"
    /\ last.first.raised /\ last.second.text = <<"0">>
    /\ last.scene_min = 3 /\ last.n = 3

\* C24: one request is made when the first reply holds an integer, two when
\* it is empty or holds no integer, and never more than two.
C24_RetriesOnce ==
    last.op = "_get_scene_count" =>
        /\ last.requests <= 2
        /\ HasDigit(RawOf(last.first)) => last.requests = 1
        /\ ~HasDigit(RawOf(last.first)) => last.requests = 2

(* ---------------------------------------------------------------------- *)
(* The script and its captions                                            *)
(* ---------------------------------------------------------------------- *)

\* The longest list of captions the model's reply may hold.
MaxTelops == 3

\* The length the fallback caption is cut at.
FallbackCut == 40

\* The length of "...".
EllipsisLen == 3

\* The lengths of narration texts followed: none, the cut, beyond the cut.
TextLens == {0, FallbackCut, FallbackCut + 1}

\* The lengths of the captions the model may write.
TelopLens == {20, FallbackCut + 1}

\* The configured telop_max_chars followed: the default and a smaller one.
TelopLimits == {20, 40}

\* What the script call gives: an exception, a blocked response, a text
\* without JSON object, an object without beats, an object whose beats are
\* not a list of objects, or an object with a list of beats, each with the
\* length of its text.
ScriptCalls ==
    {[kind |-> k, lens |-> <<>>] :
        k \in {"raise", "blocked", "unparsable", "no_beats", "malformed"}} \cup
    {[kind |-> "script", lens |-> lens] : lens \in TextsOver(TextLens, MaxBeats)}

\* What the caption call gives: an exception, an empty text, a text without
\* JSON array, or a list of captions, each with the length of its telop_text.
TelopCalls ==
    {[kind |-> k, lens |-> <<>>] : k \in {"raise", "empty", "unparsable"}} \cup
    {[kind |-> "telops", lens |-> lens] : lens \in TextsOver(TelopLens, MaxTelops) \ {<<>>}}

\* A validation that warns only about a missing beat list.
WarnsOnlyWhenEmpty(lens, scene_count) == lens = <<>>

\* `if not script.get("beats") or len(script["beats"]) != scene_count`.
WarnsMismatch(lens, scene_count) == lens = <<>> \/ Len(lens) # scene_count

\* _generate_script: None, or the script and whether the warning was printed.
GenerateScript(call, scene_count) ==
    IF call.kind \in {"raise", "blocked", "unparsable"}
    THEN [ok |-> FALSE, kind |-> call.kind, lens |-> <<>>, warned |-> FALSE]
    ELSE [ok |-> TRUE, kind |-> call.kind, lens |-> call.lens,
          warned |-> call.kind # "malformed" /\ WarnsMismatch(call.lens, scene_count)]

\* A caption: its length, and where it is from.
Telop(len, from) == [len |-> len, from |-> from]

\* The fallback caption of a text: `text[:40] + "..." if len(text) > 40 else text`.
FallbackTelop(text_len) ==
    Telop(IF text_len > FallbackCut THEN FallbackCut + EllipsisLen ELSE text_len, "fallback")

\* _generate_telops: the model's captions, the fallback ones when the call
\* fails, none for a script without beats.
GenerateTelops(lens, call) ==
    IF lens = <<>> THEN <<>>
    ELSE IF call.kind = "telops"
         THEN [x \in 1..Len(call.lens) |-> Telop(call.lens[x], "llm")]
    ELSE [x \in 1..Len(lens) |-> FallbackTelop(lens[x])]

\* transform(): the captions put into the beats.
MergeTelops(lens, telops) ==
    [x \in 1..Len(lens) |->
        [text_len |-> lens[x],
         telop |-> IF x <= Len(telops) THEN telops[x] ELSE Telop(0, "none")]]

\* ScriptTransformer.transform for a negotiated scene_count.
ScriptTransform(scene_count, script_call, telop_call) ==
    LET script == GenerateScript(script_call, scene_count)
        telops == GenerateTelops(script.lens, telop_call)
    IN  IF ~script.ok \/ script.kind = "malformed" \/ script.lens = <<>>
        THEN [returned |-> FALSE, beats |-> <<>>, warned |-> script.warned]
        ELSE [returned |-> TRUE, beats |-> MergeTelops(script.lens, telops),
              warned |-> script.warned]

ScriptInit ==
    /\ last \in {[op |-> "article", scene_count |-> n, telop_max_chars |-> limit,
                  script_call |-> sc, telop_call |-> tc,
                  result |-> [returned |-> FALSE, beats |-> <<>>, warned |-> FALSE]] :
                    n \in 1..MaxScene, limit \in TelopLimits,
                    sc \in ScriptCalls, tc \in TelopCalls}
    /\ store = [d \in DocIds |-> NoDoc]
    /\ enabled = {"text_script"}
    /\ aspect_ratios = <<"1:1">>
    /\ batch_limit = 1
    /\ generate_images = FALSE
    /\ bgm_enabled = FALSE
    /\ run = Idle
    /\ job = NoJob

CallScriptTransform ==
    /\ last.op = "article"
    /\ last' = [last EXCEPT
                  !.op = "transform",
                  !.result = ScriptTransform(last.scene_count, last.script_call, last.telop_call)]
    /\ UNCHANGED <<config, store, run, job>>

ScriptSpec == ScriptInit /\ [][CallScriptTransform]_vars

\* C18: a script that transform returns has at least one beat, and has
\* scene_count beats unless the mismatch warning was printed.
C18_SceneCountKept ==
    last.op = "transform" /\ last.result.returned =>
        /\ last.result.beats # <<>>
        /\ Len(last.result.beats) = last.scene_count \/ last.result.warned

\* A script with fewer beats than negotiated was returned, with the warning.
C18_Witness ==
    /\ last.op = "transform" /\ last.result.returned /\ last.result.warned
    /\ last.scene_count = 5 /\ Len(last.result.beats) = 3

\* C19: in a script that transform returns, every caption has at most
\* telop_max_chars characters; and when the caption call failed, each
\* caption is the beat's text cut to telop_max_chars.
C19_TelopWithinLimit ==
    last.op = "transform" /\ last.result.returned =>
        \A x \in 1..Len(last.result.beats) :
            LET beat == last.result.beats[x]
            IN  /\ beat.telop.len <= last.telop_max_chars
                /\ last.telop_call.kind # "telops" =>
                      beat.telop.len = Min(beat.text_len, last.telop_max_chars)

(* ---------------------------------------------------------------------- *)
(* The estimated duration of a scene                                      *)
(* ---------------------------------------------------------------------- *)

\* The longest narration text followed, in characters.
MaxChars == 125

\* MIN_SCENE_SEC and MAX_SCENE_SEC, in hundredths of a second.
MIN_SCENE_SEC == 300

MAX_SCENE_SEC == 2000

\* The characters narrated in a second.
CharsPerSecond == 6

\* f"{sec:.2f}" of n / 6.0, in hundredths: the nearest hundredth (n / 6 is
\* never half-way between two hundredths).
Hundredths(n, per) == (200 * n + per) \div (2 * per)

\* An estimate without the limits.
UnclampedLenSeconds(text_len) == Hundredths(Max(1, text_len), CharsPerSecond)

\* _safe_len_seconds, in hundredths of a second.
SafeLenSeconds(text_len) ==
    Max(MIN_SCENE_SEC, Min(MAX_SCENE_SEC, Hundredths(Max(1, text_len), CharsPerSecond)))

\* The duration _generate_silent_mp3 is asked for in the narration step of
\* a beat: none when the speech is there.
SilentRequest(text_len, tts) ==
    IF NeedsFallback(tts) THEN SafeLenSeconds(text_len) ELSE None

\* The narration step of two beats with a text, one not longer than the other.
DurationInit ==
    /\ last \in {[op |-> "beats", text_len |-> <<a, b>>, tts |-> <<ta, tb>>,
                  requested |-> <<None, None>>, estimated_duration |-> <<0, 0>>] :
                    a \in 1..MaxChars, b \in 1..MaxChars, ta \in TtsOutcomes, tb \in {"ok", "failed"}}
    /\ last.text_len[1] <= last.text_len[2]
    /\ store = [d \in DocIds |-> NoDoc]
    /\ enabled = {"video_short"}
    /\ aspect_ratios = <<"1:1">>
    /\ batch_limit = 1
    /\ generate_images = FALSE
    /\ bgm_enabled = FALSE
    /\ run = Idle
    /\ job = NoJob

NarrationStep ==
    /\ last.op = "beats"
    /\ last' = [last EXCEPT
                  !.op = "narrated",
                  !.requested = [x \in 1..2 |-> SilentRequest(last.text_len[x], last.tts[x])],
                  !.estimated_duration = [x \in 1..2 |-> SafeLenSeconds(last.text_len[x])]]
    /\ UNCHANGED <<config, store, run, job>>

DurationSpec == DurationInit /\ [][NarrationStep]_vars

\* v is n / 6 seconds to the nearest hundredth, kept within [3.00, 20.00].
IsClampedEstimate(v, n) ==
    IF 100 * n <= 6 * 300 THEN v = 300
    ELSE IF 100 * n >= 6 * 2000 THEN v = 2000
    ELSE 6 * v - 100 * n \in -3..3

\* C20: the estimated duration of a text is len / 6 seconds at two decimals
\* kept within [3, 20], does not decrease with the length of the text, is
\* 10.00 for 60 characters, and is the duration asked of the silent track
\* whenever the speech is not there.
C20_SafeLenSeconds ==
    last.op = "narrated" =>
        /\ \A x \in 1..2 :
              /\ IsClampedEstimate(last.estimated_duration[x], last.text_len[x])
              /\ last.estimated_duration[x] \in 300..2000
              /\ last.text_len[x] = 60 => last.estimated_duration[x] = 1000
              /\ last.tts[x] # "ok" => last.requested[x] = last.estimated_duration[x]
        /\ last.estimated_duration[1] <= last.estimated_duration[2]

\* The speech of a 60-character text failed, and that of a longer text with
\* a longer estimate too.
C20_Witness ==
    /\ last.op = "narrated"
    /\ last.text_len = <<60, 61>>
    /\ last.tts = <<"failed", "failed">>
    /\ last.requested = <<1000, 1017>>

(* ---------------------------------------------------------------------- *)
(* The fingerprint of an article                                          *)
(* ---------------------------------------------------------------------- *)

\* The longest list of links of one kind on a page.
MaxLinks == 2

\* The links a page may hold, in the order sorted() gives them.
LinkOrder == <<"u1", "u2">>

\* The titles and dates followed: empty, a word, a word after a blank, and
\* two words on two lines.
FieldTexts == {<<>>, <<"a">>, <<" ", "a">>, <<"a", "\n", "a">>}

\* The body texts followed.
BodyTexts == {<<>>, <<"a">>}

\* "\n".join(lines).
RECURSIVE Join(_)
Join(lines) ==
    IF lines = <<>> THEN <<>>
    ELSE IF Len(lines) = 1 THEN lines[1]
    ELSE lines[1] \o <<"\n">> \o Join(Tail(lines))

\* sorted(set(links)), one line per link.
SortedSet(links) ==
    LET In(u) == \E x \in 1..Len(links) : links[x] = u
        kept == SelectSeq(LinkOrder, In)
    IN  [x \in 1..Len(kept) |-> <<kept[x]>>]

\* The string compute_quick_hash digests.
QuickHashBase(in) ==
    Join(<<Strip(in.page_title), Strip(in.published_date), Strip(in.body_text), <<"|PDFS|">>>>
         \o SortedSet(in.pdf_links)
         \o <<<<"|IMGS|">>>>
         \o SortedSet(in.image_links))

\* The arguments of one call of compute_quick_hash.
HashInputs ==
    [page_title : FieldTexts, published_date : FieldTexts, body_text : BodyTexts,
     pdf_links : TextsOver({"u1", "u2"}, MaxLinks),
     image_links : TextsOver({"u1"}, MaxLinks)]

HashInit ==
    /\ last \in {[op |-> "articles", a |-> a, b |-> a, base |-> <<>>, other |-> <<>>] :
                    a \in HashInputs}
    /\ store = [d \in DocIds |-> NoDoc]
    /\ enabled = {"text_script"}
    /\ aspect_ratios = <<"1:1">>
    /\ batch_limit = 1
    /\ generate_images = FALSE
    /\ bgm_enabled = FALSE
    /\ run = Idle
    /\ job = NoJob

\* The page is fingerprinted, and fingerprinted again once it reads b.
ComputeQuickHash ==
    /\ last.op = "articles"
    /\ \E b \in HashInputs :
          last' = [last EXCEPT !.op = "hashed",
                               !.b = b,
                               !.base = QuickHashBase(last.a),
                               !.other = QuickHashBase(b)]
    /\ UNCHANGED <<config, store, run, job>>

HashSpec == HashInit /\ [][ComputeQuickHash]_vars

\* The entries of a list of links.
LinkSet(links) == {links[x] : x \in 1..Len(links)}

\* Two calls with the same texts and the same sets of links.
SameContent(a, b) ==
    /\ a.page_title = b.page_title
    /\ a.published_date = b.published_date
    /\ a.body_text = b.body_text
    /\ LinkSet(a.pdf_links) = LinkSet(b.pdf_links)
    /\ LinkSet(a.image_links) = LinkSet(b.image_links)

\* C21: the string digested is the same for two calls with the same title,
\* date, body text and sets of links, however the links are ordered or
\* repeated, and differs for two calls that differ in one of these.
C21_HashDependsOnContent ==
    last.op = "hashed" => (last.base = last.other <=> SameContent(last.a, last.b))

(* ---------------------------------------------------------------------- *)
(* The order of the selected records                                      *)
(* ---------------------------------------------------------------------- *)

\* C22: in the list query_pending_transform returns, no scriptStatus =
\* False record stands before a scriptStatus-unset record, the unset records
\* are in ascending scrape time, and the False records number at most the
\* limit less the unset records.
C22_UnsetBeforeFalse ==
    run.pc = "running" =>
        LET status(i) == store[run.docs[i].id].scriptStatus
            at(i) == store[run.docs[i].id].scraped_at
            n == Len(run.docs)
        IN  /\ \A i, j \in 1..n : i < j => ~(status(i) = False /\ status(j) = None)
            /\ \A i, j \in 1..n : i < j /\ status(i) = None /\ status(j) = None => at(i) <= at(j)
            /\ Cardinality({i \in 1..n : status(i) = False})
                  <= batch_limit - Cardinality({i \in 1..n : status(i) = None})

(* ---------------------------------------------------------------------- *)
(* The duration of a scene's clip                                         *)
(* ---------------------------------------------------------------------- *)

\* The longest duration ffprobe reports, in hundredths of a second.
MaxProbe == 320

\* The duration argument of create_video: not given (None), or a number of
\* hundredths of a second.
Durations ==
    {[given |-> FALSE, value |-> 0], [given |-> TRUE, value |-> 0]} \cup
    {[given |-> TRUE, value |-> SafeLenSeconds(n)] : n \in 1..MaxChars}

\* `duration is None or duration <= 0`.
Undetermined(duration) == ~duration.given \/ duration.value <= 0

\* create_video up to `return False`: the duration the clip is made with,
\* for what _get_audio_duration would return for the narration file.
ResolveDuration(duration, probed) ==
    LET resolved == IF Undetermined(duration) /\ probed > 0
                    THEN [given |-> TRUE, value |-> probed]
                    ELSE duration
    IN  IF Undetermined(resolved)
        THEN [accepted |-> FALSE, used |-> 0, probes |-> 1]
        ELSE [accepted |-> TRUE, used |-> resolved.value,
              probes |-> IF Undetermined(duration) THEN 1 ELSE 0]

ClipInit ==
    /\ last \in {[op |-> "scene", duration |-> d, probed |-> p,
                  out |-> [accepted |-> FALSE, used |-> 0, probes |-> 0]] :
                    d \in Durations, p \in 0..MaxProbe}
    /\ store = [d \in DocIds |-> NoDoc]
    /\ enabled = {"video_short"}
    /\ aspect_ratios = <<"1:1">>
    /\ batch_limit = 1
    /\ generate_images = FALSE
    /\ bgm_enabled = FALSE
    /\ run = Idle
    /\ job = NoJob

CallCreateVideo ==
    /\ last.op = "scene"
    /\ last' = [last EXCEPT !.op = "create_video",
                            !.out = ResolveDuration(last.duration, last.probed)]
    /\ UNCHANGED <<config, store, run, job>>

ClipSpec == ClipInit /\ [][CallCreateVideo]_vars

\* C25: the clip is made with the duration probed from the narration file
\* when that is positive, else with the caller's estimate when that is
\* positive, and the scene is rejected only when neither is.
C25_ProbeFirst ==
    last.op = "create_video" =>
        IF last.probed > 0 THEN last.out.accepted /\ last.out.used = last.probed
        ELSE IF last.duration.given /\ last.duration.value > 0
             THEN last.out.accepted /\ last.out.used = last.duration.value
        ELSE ~last.out.accepted

(* ---------------------------------------------------------------------- *)
(* The length of the video with music                                     *)
(* ---------------------------------------------------------------------- *)

\* The longest concatenated video followed, in hundredths of a second.
MaxVideoLen == 400

\* TAIL_SEC, in hundredths of a second.
TAIL_SEC == 60

\* What ffprobe gives for the concatenated video: its duration, an output
\* that is no number, or no run at all (subprocess.run raises).
ProbeOutcomes == {"duration", "invalid", "raised"}

\* _get_video_duration: the number printed, 0.0 when the output is no number.
GetVideoDuration(actual, probe) == IF probe = "duration" THEN actual ELSE 0

\* _add_bgm: the video copied when there is no music file or the mix raises;
\* else the mix, which the looped music makes as long as the limit -t.
AddBgmOutput(actual, has_file, probe, mix_ok) ==
    IF ~has_file \/ probe = "raised" \/ ~mix_ok
    THEN [mixed |-> FALSE, limit |-> 0, length |-> actual]
    ELSE LET limit == GetVideoDuration(actual, probe) + TAIL_SEC
         IN  [mixed |-> TRUE, limit |-> limit, length |-> limit]

BgmInit ==
    /\ last \in {[op |-> "concatenated", actual |-> a, has_file |-> f, probe |-> p,
                  mix_ok |-> m, out |-> [mixed |-> FALSE, limit |-> 0, length |-> 0]] :
                    a \in 1..MaxVideoLen, f \in BOOLEAN, p \in ProbeOutcomes, m \in BOOLEAN}
    /\ store = [d \in DocIds |-> NoDoc]
    /\ enabled = {"video_short"}
    /\ aspect_ratios = <<"1:1">>
    /\ batch_limit = 1
    /\ generate_images = FALSE
    /\ bgm_enabled = TRUE
    /\ run = Idle
    /\ job = NoJob

CallAddBgm ==
    /\ last.op = "concatenated"
    /\ last' = [last EXCEPT
                  !.op = "_add_bgm",
                  !.out = AddBgmOutput(last.actual, last.has_file, last.probe, last.mix_ok)]
    /\ UNCHANGED <<config, store, run, job>>

BgmSpec == BgmInit /\ [][CallAddBgm]_vars

\* C26: the mix is limited to the concatenated video's duration plus the
\* tail, so the video with music is not shorter than the concatenated video
\* and not longer than it plus the tail, also when the probe fails; without
\* a music file or when the mix fails the video is the concatenated one.
C26_LengthWithinTail ==
    last.op = "_add_bgm" =>
        /\ last.out.mixed => last.out.limit = last.actual + 60
        /\ last.out.length >= last.actual
        /\ last.out.length <= last.actual + 60
        /\ ~last.has_file \/ ~last.mix_ok => ~last.out.mixed /\ last.out.length = last.actual

(* ---------------------------------------------------------------------- *)
(* Caption wrapping                                                       *)
(* ---------------------------------------------------------------------- *)

\* The longest caption followed, and the widest line, in narrow characters.
MaxCaption == 5
MaxWidth == 4

\* The characters of a caption: narrow letters, a wide one ("W", twice as
\* wide), a blank and the two line breaks.
CaptionChars == {"A", "B", "W", " ", "\n", "\r"}

\* draw.textbbox's width of a line: the widths of its characters.
RECURSIVE TextWidth(_)
TextWidth(line) ==
    IF line = <<>> THEN 0
    ELSE (IF Head(line) = "W" THEN 2 ELSE 1) + TextWidth(Tail(line))

\* text.replace('\n', '').replace('\r', '').strip().
CleanText(text) ==
    LET NoBreak(c) == c \notin {"\n", "\r"}
    IN  Strip(SelectSeq(text, NoBreak))

\* A loop body that starts the next line empty.
WrapStepDropsChar(lines, line, char, max_width) ==
    IF TextWidth(Append(line, char)) <= max_width THEN <<lines, Append(line, char)>>
    ELSE <<IF line # <<>> THEN Append(lines, line) ELSE lines, <<>>>>

\* The body of `for char in clean_text`: lines and line after char.
WrapStep(lines, line, char, max_width) ==
    IF TextWidth(Append(line, char)) <= max_width THEN <<lines, Append(line, char)>>
    ELSE <<IF line # <<>> THEN Append(lines, line) ELSE lines, <<char>>>>

RECURSIVE WrapFrom(_, _, _, _, _)
WrapFrom(clean, x, lines, line, max_width) ==
    IF x > Len(clean) THEN IF line # <<>> THEN Append(lines, line) ELSE lines
    ELSE LET next == WrapStep(lines, line, clean[x], max_width)
         IN  WrapFrom(clean, x + 1, next[1], next[2], max_width)

\* _wrap_text: the lines that are joined with "\n".
WrapText(text, max_width) == WrapFrom(CleanText(text), 1, <<>>, <<>>, max_width)

WrapInit ==
    /\ last \in {[op |-> "caption", text |-> t, max_width |-> w, lines |-> <<>>] :
                    t \in TextsOver(CaptionChars, MaxCaption)
                          \cup {<<"A", "B", "C", "D", "E", "F", "G", "H", "I", "J">>},
                    w \in 1..MaxWidth}
    /\ store = [d \in DocIds |-> NoDoc]
    /\ enabled = {"video_short"}
    /\ aspect_ratios = <<"1:1">>
    /\ batch_limit = 1
    /\ generate_images = FALSE
    /\ bgm_enabled = FALSE
    /\ run = Idle
    /\ job = NoJob

CallWrapText ==
    /\ last.op = "caption"
    /\ last' = [last EXCEPT !.op = "_wrap_text",
                            !.lines = WrapText(last.text, last.max_width)]
    /\ UNCHANGED <<config, store, run, job>>

WrapSpec == WrapInit /\ [][CallWrapText]_vars

\* The lines one after the other.
RECURSIVE Concat(_)
Concat(lines) == IF lines = <<>> THEN <<>> ELSE Head(lines) \o Concat(Tail(lines))

\* The lines are the caption without line breaks and outer blanks, none is
\* wider than max_width, and none but the last could take the next character.
WrappedWell ==
    LET lines == last.lines
    IN  /\ Concat(lines) = CleanText(last.text)
        /\ \A x \in 1..Len(lines) : TextWidth(lines[x]) <= last.max_width
        /\ \A x \in 1..(Len(lines) - 1) :
              TextWidth(Append(lines[x], lines[x + 1][1])) > last.max_width
        /\ last.text = <<"A", "B", "C", "D", "E", "F", "G", "H", "I", "J">> /\ last.max_width = 4
              => lines = <<<<"A", "B", "C", "D">>, <<"E", "F", "G", "H">>, <<"I", "J">>>>

\* C27 as stated: the lines are wrapped well whenever max_width fits at
\* least one character of the caption.
C27_Original ==
    last.op = "_wrap_text"
    /\ (\E x \in 1..Len(last.text) : TextWidth(<<last.text[x]>>) <= last.max_width)
    => WrappedWell

\* C27: the lines are wrapped well whenever max_width fits every character
\* of the caption.
C27_WrapKeepsText ==
    last.op = "_wrap_text"
    /\ (\A x \in 1..Len(last.text) : TextWidth(<<last.text[x]>>) <= last.max_width)
    => WrappedWell

\* ABCDEFGHIJ at four characters a line.
C27_Witness ==
    /\ last.op = "_wrap_text"
    /\ last.max_width = 4
    /\ last.lines = <<<<"A", "B", "C", "D">>, <<"E", "F", "G", "H">>, <<"I", "J">>>>

(* ---------------------------------------------------------------------- *)
(* Runs that are not kept apart                                           *)
(* ---------------------------------------------------------------------- *)

\* reset_transform_fields: for every document of the collection the
\* top-level transformStatus is deleted and scriptStatus set to None, in one
\* batch; transformedContent is not among the fields reset.
ResetTransformFields ==
    /\ \E d \in DocIds : store[d].exists
    /\ store' = [d \in DocIds |->
                    IF store[d].exists
                    THEN [store[d] EXCEPT !.transformStatus = EmptyMap, !.scriptStatus = None]
                    ELSE store[d]]
    /\ last' = [NoCall EXCEPT !.op = "reset"]
    /\ UNCHANGED <<config, run, job>>

\* Nothing in the code keeps a scrape run, a transform run and a reset
\* apart: a save or a reset may come between the query of a transform run
\* and the update of a record.
RaceNext == Scrape \/ StartTransform \/ ProcessDoc \/ ResetTransformFields

RaceSpec == Init /\ [][RaceNext]_vars

\* C28: a record that a transform run has just written does not have
\* scriptStatus True together with a transformedContent made from content
\* other than the content it now holds.
C28_ChangeForcesRegeneration ==
    last.op = "doc" /\ last.applied =>
        ~(store[last.id].scriptStatus = True /\ store[last.id].quick_hash # last.hash)

\* C29: every stored record has scrapeStatus new or updated and scriptStatus
\* unset or True, so the scriptStatus = False query matches no record.
C29_StatusValues ==
    /\ \A d \in DocIds :
          store[d].exists =>
              /\ store[d].scrapeStatus \in {"new", "updated"}
              /\ store[d].scriptStatus \in {None, True}
    /\ Matching(store, False) = {}

\* A reset put a transformed record back to unset, after scrape saves that
\* found it changed and unchanged.
C29_Witness ==
    /\ last.op = "reset"
    /\ \E d \in DocIds :
          /\ store[d].scrapeStatus = "updated"
          /\ store[d].scriptStatus = None
          /\ store[d].transformedContent # EmptyMap

(* ---------------------------------------------------------------------- *)
(* Storage paths                                                          *)
(* ---------------------------------------------------------------------- *)

\* The longest title followed, apart from the two that are cut.
MaxTitle == 2

\* The length safe_title is cut to.
SafeTitleMax == 50

\* The characters of a title: letters, a blank, and "?" for the characters
\* that are removed.
TitleChars == {"a", "b", " ", "?"}

\* Titles of SafeTitleMax + 1 characters that differ in the last one.
LongTitles == {[x \in 1..SafeTitleMax |-> "a"] \o <<c>> : c \in {"a", "b"}}

\* safe_title: the characters a file name cannot hold removed, blanks
\* replaced, cut to 50 characters.
SafeTitle(title) ==
    LET Kept(c) == c # "?"
        kept == SelectSeq(title, Kept)
        named == [x \in 1..Len(kept) |-> IF kept[x] = " " THEN "_" ELSE kept[x]]
    IN  IF Len(named) > SafeTitleMax THEN SubSeq(named, 1, SafeTitleMax) ELSE named

\* filename: f"videos/{file_base_name}_video_{aspect_suffix}.mp4".
StoragePath(title, ratio) ==
    <<"videos/">> \o SafeTitle(title) \o <<"_video_", ratio, ".mp4">>

\* Two records with the titles of their scripts, and no video stored.
PathInit ==
    /\ last \in {[op |-> "scripts", title |-> <<a, b>>, writes |-> {}] :
                    a \in TextsOver(TitleChars, MaxTitle) \cup LongTitles,
                    b \in TextsOver(TitleChars, MaxTitle) \cup LongTitles}
    /\ store = [d \in DocIds |-> NoDoc]
    /\ enabled = {"text_script", "video_short"}
    /\ aspect_ratios = <<"1:1", "9:16">>
    /\ batch_limit = 1
    /\ generate_images = FALSE
    /\ bgm_enabled = FALSE
    /\ run = Idle
    /\ job = NoJob

\* The video of record d for an aspect ratio is handed to save_file.
SaveVideo ==
    \E d \in 1..2, x \in 1..Len(aspect_ratios) :
        LET write == <<StoragePath(last.title[d], aspect_ratios[x]), d>>
        IN  /\ write \notin last.writes
            /\ last' = [last EXCEPT !.op = "save_file", !.writes = @ \cup {write}]
            /\ UNCHANGED <<config, store, run, job>>

PathSpec == PathInit /\ [][SaveVideo]_vars

\* C30: no storage path is written for two different records.
C30_PathPerRecord ==
    \A v, w \in last.writes : v[1] = w[1] => v[2] = w[2]

====
